---- MODULE Spec2Model ----
(***************************************************************************)
(* Model of launch_amazon_mysql_server.py: the launch gate sequence of     *)
(* launch_amazon_mysql_server and the subnet scan of get_subnet_from_sg.   *)
(*                                                                         *)
(* Python strings that the code compares, edits or formats (access-group   *)
(* names, MySQL versions, the hiera role key) are sequences of one-letter  *)
(* strings; strings that are only looked up or passed through are plain    *)
(* TLA+ strings.  A dict is a function; a missing key is a KeyError.       *)
(***************************************************************************)
EXTENDS Integers, Sequences, FiniteSets, TLC

VARIABLES
    VPC_SUBNET_SG_MAP,  \* environment_specific.VPC_SUBNET_SG_MAP, in .keys() order
    role,               \* what host_utils.get_security_role() returns
    req,                \* the arguments of the running invocation
    pc,                 \* the gate the invocation is about to run
    config,             \* the config dict, as built so far
    subnet_name,        \* local subnet_name
    ssh_security,       \* local ssh_security
    hiera_config,       \* local hiera_config
    error,              \* which raise ended the invocation, "" if none
    result,             \* the return value
    run_instances,      \* the configs handed to conn.run_instances
    trace,              \* the gates this invocation has run, in order
    calls               \* the get_subnet_from_sg calls made so far (SpecResolve)

vars == <<VPC_SUBNET_SG_MAP, role, req, pc, config, subnet_name, ssh_security,
          hiera_config, error, result, run_instances, trace, calls>>

\* The number of get_subnet_from_sg calls SpecResolve follows.
MaxCalls == 3

----------------------------------------------------------------------------
\* Python values

\* None; also what a string-valued local holds before it is assigned.
None == "None"

\* An absent ssh_group: None (and '', as falsy at line 107).
NoGroup == << >>

EmptyDict == [k \in {} |-> k]

\* A returned value, with its Python type.
PyNone == [type |-> "NoneType", value |-> None]
PyStr(x) == [type |-> "str", value |-> x]
PyDict(x) == [type |-> "dict", value |-> x]

\* The letters of the compared strings, in ASCII order.
Alphabet == <<"a", "c", "d", "e", "m", "o", "p", "r", "s", "v", "z">>

Ord(c) == CHOOSE i \in 1..Len(Alphabet) : Alphabet[i] = c

Min(a, b) == IF a <= b THEN a ELSE b

\* Python's str < str: at the first differing letter, else the shorter one.
StrLess(a, b) ==
    LET n == Min(Len(a), Len(b))
        diff == {i \in 1..n : a[i] # b[i]}
    IN  IF diff = {}
        THEN Len(a) < Len(b)
        ELSE LET i == CHOOSE j \in diff : \A k \in diff : j <= k
             IN  Ord(a[i]) < Ord(b[i])

\* Python's str >= str.
StrGE(a, b) == ~StrLess(a, b)

\* s.replace('.', '')
RECURSIVE RemoveDots(_)
RemoveDots(s) ==
    IF s = << >> THEN << >>
    ELSE IF Head(s) = "." THEN RemoveDots(Tail(s))
    ELSE <<Head(s)>> \o RemoveDots(Tail(s))

----------------------------------------------------------------------------
\* environment_specific: the static tables

ROLE_TO_LAUNCH_INSTANCE == {"mysql_admin"}

PEM_KEY == "pem-key"
INSTANCE_PROFILE_NAME == "profile-base"
PINFO_TEAM == "team-db"
PINFO_ENV == "prod"
RAID_MOUNT == "/raid0"

\* instance type -> 'ami' -> os flavor -> image id; c3.large has no trusty image
SUPPORTED_HARDWARE ==
    [t \in {"i2.xlarge", "c3.large"} |->
        IF t = "i2.xlarge"
        THEN [f \in {"precise", "trusty"} |-> IF f = "precise" THEN "ami-i2p" ELSE "ami-i2t"]
        ELSE [f \in {"precise"} |-> "ami-c3p"]]

OsFlavors == {"precise", "trusty"}

\* The two logical networks and the security groups.
Networks == {"vpc-a", "vpc-b"}

VPC_SECURITY_GROUPS ==
    [g \in {"sg-app", "sg-web", "sg-orphan"} |->
        CASE g = "sg-app" -> "sg-0a"
          [] g = "sg-web" -> "sg-0w"
          [] OTHER -> "sg-0o"]

\* network -> zone -> subnet; vpc-b has no subnet in us-east-1b
VPC_AZ_SUBNET_MAP ==
    [n \in Networks |->
        IF n = "vpc-a"
        THEN [z \in {"us-east-1a", "us-east-1b"} |->
                 IF z = "us-east-1a" THEN "subnet-a1" ELSE "subnet-a2"]
        ELSE [z \in {"us-east-1a"} |-> "subnet-b1"]]

SUPPORTED_AZ == {"us-east-1a", "us-east-1b"}

\* The access groups, as Python compares them: "dev" < "prod" < "sec".
dev == <<"d", "e", "v">>
prod == <<"p", "r", "o", "d">>
sec == <<"s", "e", "c">>
\* Names that are no access group: one below every group, one above.
adm == <<"a", "d", "m">>
zz == <<"z", "z">>

SSH_IAM_MAPPING ==
    [g \in {dev, prod, sec} |->
        CASE g = dev -> "iam-dev"
          [] g = prod -> "iam-prod"
          [] OTHER -> "iam-sec"]

\* network -> its default access group and identity profile
SSH_SECURITY_MAP ==
    [n \in Networks |->
        IF n = "vpc-a"
        THEN [ssh |-> prod, iam |-> "iam-vpc-a"]
        ELSE [ssh |-> dev, iam |-> "iam-vpc-b"]]

v56 == <<"5", ".", "6">>
v57 == <<"5", ".", "7">>
stable == <<"s", "t", "a", "b", "l", "e">>
staging == <<"s", "t", "a", "g", "i", "n", "g">>

\* HIERA_FORMAT.format(ssh_security=, mysql_major_version=, mysql_minor_version=)
HIERA_FORMAT(ssh, major, minor) == ssh \o <<"-">> \o major \o <<"-">> \o minor

SUPPORTED_HIERA_CONFIGS ==
    { HIERA_FORMAT(dev, <<"5", "6">>, stable),
      HIERA_FORMAT(dev, <<"5", "6">>, staging),
      HIERA_FORMAT(prod, <<"5", "6">>, stable),
      HIERA_FORMAT(prod, <<"5", "7">>, stable),
      HIERA_FORMAT(sec, <<"5", "6">>, stable) }

\* launch_replacement_db_host.is_hostname_new against the registry
UsedHostnames == {"db-used"}
is_hostname_new(hostname) == hostname \notin UsedHostnames

\* The id the provider gives the instance it creates.
NewInstanceId == "i-0001"

----------------------------------------------------------------------------
\* The topology tables the model starts from: a dict's keys() order is
\* arbitrary but fixed, so each table comes in both orders.  In the second
\* pair sg-app is (mis)configured into both networks.

Members1 == [n \in Networks |-> IF n = "vpc-a" THEN {"sg-app"} ELSE {"sg-web"}]
Members2 == [n \in Networks |-> IF n = "vpc-a" THEN {"sg-app"} ELSE {"sg-web", "sg-app"}]

Table(order, members) == [i \in 1..Len(order) |-> [name |-> order[i], sgs |-> members[order[i]]]]

Topologies ==
    { Table(o, m) : o \in {<<"vpc-a", "vpc-b">>, <<"vpc-b", "vpc-a">>},
                    m \in {Members1, Members2} }

----------------------------------------------------------------------------
\* get_subnet_from_sg

\* The loop, were it to break at the first match.
RECURSIVE ScanFirst(_, _, _, _)
ScanFirst(map, sg, i, vpc_subnet) ==
    IF i > Len(map) THEN vpc_subnet
    ELSE IF sg \in map[i].sgs THEN map[i].name
    ELSE ScanFirst(map, sg, i + 1, vpc_subnet)

\* The loop, were it to fall back on the first network.
RECURSIVE ScanDefaults(_, _, _, _)
ScanDefaults(map, sg, i, vpc_subnet) ==
    IF i > Len(map) THEN (IF vpc_subnet = None THEN map[1].name ELSE vpc_subnet)
    ELSE ScanDefaults(map, sg, i + 1,
                      IF sg \in map[i].sgs THEN map[i].name ELSE vpc_subnet)

\* The loop, were it to stop one entry early.
RECURSIVE ScanSkipsLast(_, _, _, _)
ScanSkipsLast(map, sg, i, vpc_subnet) ==
    IF i >= Len(map) THEN vpc_subnet
    ELSE ScanSkipsLast(map, sg, i + 1,
                       IF sg \in map[i].sgs THEN map[i].name ELSE vpc_subnet)

\* The for loop of lines 167-169 from entry i on, vpc_subnet being the local.
RECURSIVE Scan(_, _, _, _)
Scan(map, sg, i, vpc_subnet) ==
    IF i > Len(map) THEN vpc_subnet
    ELSE Scan(map, sg, i + 1,
              IF sg \in map[i].sgs THEN map[i].name ELSE vpc_subnet)

\* What a call returns or raises.
Raise(kind) == [ok |-> FALSE, err |-> kind, vpc_subnet |-> None, vpc_az_subnet |-> None]
Return(n, s) == [ok |-> TRUE, err |-> "", vpc_subnet |-> n, vpc_az_subnet |-> s]

get_subnet_from_sg(map, sg, az) ==
    LET vpc_subnet == Scan(map, sg, 1, None)
    IN  IF vpc_subnet = None
        THEN Raise("ResolutionError")
        ELSE IF az \notin DOMAIN VPC_AZ_SUBNET_MAP[vpc_subnet]
        THEN Raise("KeyError:VPC_AZ_SUBNET_MAP")
        ELSE Return(vpc_subnet, VPC_AZ_SUBNET_MAP[vpc_subnet][az])

----------------------------------------------------------------------------
\* The requests

SecurityGroups == {"sg-app", "sg-web", "sg-orphan", None}
SshGroups == {NoGroup, dev, prod, sec, adm, zz}

Requests ==
    [ hostname : {"db-new", "db-used"},
      instance_type : {"i2.xlarge", "c3.large"},
      vpc_security_group : SecurityGroups,
      availability_zone : SUPPORTED_AZ,
      ssh_group : SshGroups,
      mysql_major_version : {v56, v57},
      mysql_minor_version : {stable, staging},
      os_flavor : OsFlavors,
      dry_run : BOOLEAN,
      skip_name_check : BOOLEAN ]

NoRequest ==
    [ hostname |-> None, instance_type |-> None, vpc_security_group |-> None,
      availability_zone |-> None, ssh_group |-> NoGroup,
      mysql_major_version |-> << >>, mysql_minor_version |-> << >>,
      os_flavor |-> None, dry_run |-> FALSE, skip_name_check |-> FALSE ]

Roles == {"mysql_admin", "guest"}

Terminal == {"Returned", "Failed"}

----------------------------------------------------------------------------
\* launch_amazon_mysql_server, gate by gate

Init ==
    /\ VPC_SUBNET_SG_MAP \in Topologies
    /\ role = None
    /\ req = NoRequest
    /\ pc = "Start"
    /\ config = EmptyDict
    /\ subnet_name = None
    /\ ssh_security = << >>
    /\ hiera_config = << >>
    /\ error = ""
    /\ result = PyNone
    /\ run_instances = << >>
    /\ trace = << >>
    /\ calls = << >>

\* The order, were the name check made right after the authorization.
NextGateNameCheckFirst(gate, dry_run) ==
    CASE gate = "AuthCheck" -> "UniquenessCheck"
      [] gate = "UniquenessCheck" -> "ImageLookup"
      [] gate = "ImageLookup" -> "SubnetResolve"
      [] gate = "SubnetResolve" -> "AccessReconciliation"
      [] gate = "AccessReconciliation" -> "RoleKeyValidation"
      [] gate = "RoleKeyValidation" -> "Assemble"
      [] gate = "Assemble" -> IF dry_run THEN "DryRunExit" ELSE "Submit"
      [] OTHER -> "Returned"

\* The order, were dry_run not looked at.
NextGateAlwaysSubmits(gate, dry_run) ==
    CASE gate = "AuthCheck" -> "ImageLookup"
      [] gate = "ImageLookup" -> "SubnetResolve"
      [] gate = "SubnetResolve" -> "AccessReconciliation"
      [] gate = "AccessReconciliation" -> "RoleKeyValidation"
      [] gate = "RoleKeyValidation" -> "Assemble"
      [] gate = "Assemble" -> "UniquenessCheck"
      [] gate = "UniquenessCheck" -> "Submit"
      [] OTHER -> "Returned"

\* The statement control reaches when the lines of `gate` raise nothing.
NextGate(gate, dry_run) ==
    CASE gate = "AuthCheck" -> "ImageLookup"                      \* line 94
      [] gate = "ImageLookup" -> "SubnetResolve"                  \* line 100
      [] gate = "SubnetResolve" -> "AccessReconciliation"         \* line 103
      [] gate = "AccessReconciliation" -> "RoleKeyValidation"     \* line 116
      [] gate = "RoleKeyValidation" -> "Assemble"                 \* line 127
      [] gate = "Assemble" -> "UniquenessCheck"                   \* line 142
      [] gate = "UniquenessCheck" ->                              \* line 146
            IF dry_run THEN "DryRunExit" ELSE "Submit"
      [] OTHER -> "Returned"                                      \* lines 148, 153

\* A raise: the invocation ends, the locals stay as they were.
Fail(gate, kind) ==
    /\ pc' = "Failed"
    /\ error' = kind
    /\ trace' = Append(trace, gate)

Pass(gate) ==
    /\ pc' = NextGate(gate, req.dry_run)
    /\ error' = error
    /\ trace' = Append(trace, gate)

\* The call of launch_amazon_mysql_server(...) that main() makes.
Launch ==
    /\ pc = "Start"
    /\ \E r \in Requests, who \in Roles :
        /\ req' = r
        /\ role' = who
    /\ pc' = "AuthCheck"
    /\ config' = EmptyDict
    /\ subnet_name' = None
    /\ ssh_security' = << >>
    /\ hiera_config' = << >>
    /\ error' = ""
    /\ result' = PyNone
    /\ run_instances' = << >>
    /\ trace' = << >>
    /\ UNCHANGED <<VPC_SUBNET_SG_MAP, calls>>

AuthCheck ==
    /\ pc = "AuthCheck"
    /\ IF role \notin ROLE_TO_LAUNCH_INSTANCE
       THEN Fail("AuthCheck", "AuthorizationError")
       ELSE Pass("AuthCheck")
    /\ UNCHANGED <<VPC_SUBNET_SG_MAP, role, req, config, subnet_name, ssh_security,
                   hiera_config, result, run_instances, calls>>

ImageLookup ==
    /\ pc = "ImageLookup"
    /\ IF \/ req.instance_type \notin DOMAIN SUPPORTED_HARDWARE
          \/ req.os_flavor \notin DOMAIN SUPPORTED_HARDWARE[req.instance_type]
       THEN /\ Fail("ImageLookup", "KeyError:SUPPORTED_HARDWARE")
            /\ config' = config
       ELSE /\ Pass("ImageLookup")
            /\ config' = [ key_name |-> PEM_KEY,
                           placement |-> req.availability_zone,
                           instance_profile_name |-> INSTANCE_PROFILE_NAME,
                           image_id |-> SUPPORTED_HARDWARE[req.instance_type][req.os_flavor],
                           instance_type |-> req.instance_type ]
    /\ UNCHANGED <<VPC_SUBNET_SG_MAP, role, req, subnet_name, ssh_security,
                   hiera_config, result, run_instances, calls>>

SubnetResolve ==
    /\ pc = "SubnetResolve"
    /\ LET r == get_subnet_from_sg(VPC_SUBNET_SG_MAP, req.vpc_security_group,
                                   req.availability_zone)
       IN  IF ~r.ok
           THEN /\ Fail("SubnetResolve", r.err)
                /\ UNCHANGED <<config, subnet_name>>
           ELSE /\ Pass("SubnetResolve")
                /\ subnet_name' = r.vpc_subnet
                /\ config' = config @@ [subnet_id |-> r.vpc_az_subnet]
    /\ UNCHANGED <<VPC_SUBNET_SG_MAP, role, req, ssh_security, hiera_config,
                   result, run_instances, calls>>

\* Line 107: if ssh_group
HasOverrideIfRecognized(ssh_group) == ssh_group \in DOMAIN SSH_IAM_MAPPING

HasOverride(ssh_group) == ssh_group # NoGroup

\* Line 108: the override is no weaker than the default and is an access group
OverrideAllowedAnyLevel(ssh_group, default) ==
    ssh_group \in DOMAIN SSH_IAM_MAPPING

OverrideAllowed(ssh_group, default) ==
    StrGE(ssh_group, default) /\ ssh_group \in DOMAIN SSH_IAM_MAPPING

\* Line 110: the profile an allowed override brings
AdoptedProfileKeepsDefault(ssh_group, default_iam) == default_iam

AdoptedProfile(ssh_group, default_iam) == SSH_IAM_MAPPING[ssh_group]

\* Lines 103-114
AccessReconciliation ==
    /\ pc = "AccessReconciliation"
    /\ IF subnet_name \notin DOMAIN SSH_SECURITY_MAP
       THEN /\ Fail("AccessReconciliation", "KeyError:SSH_SECURITY_MAP")
            /\ UNCHANGED <<config, ssh_security>>
       ELSE LET default == SSH_SECURITY_MAP[subnet_name]
                config104 == [config EXCEPT !.instance_profile_name = default.iam]
            IN  IF req.vpc_security_group \notin DOMAIN VPC_SECURITY_GROUPS
                THEN /\ Fail("AccessReconciliation", "KeyError:VPC_SECURITY_GROUPS")
                     /\ ssh_security' = default.ssh
                     /\ config' = config104
                ELSE LET config105 == config104 @@
                            [security_group_ids |->
                                <<VPC_SECURITY_GROUPS[req.vpc_security_group]>>]
                     IN  IF ~HasOverride(req.ssh_group)
                         THEN /\ Pass("AccessReconciliation")
                              /\ ssh_security' = default.ssh
                              /\ config' = config105
                         ELSE IF OverrideAllowed(req.ssh_group, default.ssh)
                         THEN IF req.ssh_group \notin DOMAIN SSH_IAM_MAPPING
                              THEN /\ Fail("AccessReconciliation", "KeyError:SSH_IAM_MAPPING")
                                   /\ ssh_security' = req.ssh_group
                                   /\ config' = config105
                              ELSE /\ Pass("AccessReconciliation")
                                   /\ ssh_security' = req.ssh_group
                                   /\ config' = [config105 EXCEPT !.instance_profile_name =
                                                     AdoptedProfile(req.ssh_group, default.iam)]
                         ELSE /\ Fail("AccessReconciliation", "PolicyError:access")
                              /\ ssh_security' = default.ssh
                              /\ config' = config105
    /\ UNCHANGED <<VPC_SUBNET_SG_MAP, role, req, subnet_name, hiera_config,
                   result, run_instances, calls>>

\* Line 121: hiera_config in SUPPORTED_HIERA_CONFIGS
IsSupportedAlways(h) == TRUE

IsSupported(h) == h \in SUPPORTED_HIERA_CONFIGS

\* Lines 116-125
RoleKeyValidation ==
    /\ pc = "RoleKeyValidation"
    /\ hiera_config' = HIERA_FORMAT(ssh_security,
                                    RemoveDots(req.mysql_major_version),
                                    req.mysql_minor_version)
    /\ IF ~IsSupported(hiera_config')
       THEN Fail("RoleKeyValidation", "PolicyError:role")
       ELSE Pass("RoleKeyValidation")
    /\ UNCHANGED <<VPC_SUBNET_SG_MAP, role, req, config, subnet_name, ssh_security,
                   result, run_instances, calls>>

\* Lines 127-139: the cloud-config text, by its fields
user_data(role_key, hostname) ==
    [ pinfo_team |-> PINFO_TEAM,
      pinfo_env |-> PINFO_ENV,
      pinfo_role |-> role_key,
      hostname |-> hostname,
      raid |-> "true",
      raid_fs |-> "xfs",
      raid_mount |-> RAID_MOUNT ]

\* Lines 127-141
Assemble ==
    /\ pc = "Assemble"
    /\ config' = config @@ [user_data |-> user_data(hiera_config, req.hostname)]
    /\ Pass("Assemble")
    /\ UNCHANGED <<VPC_SUBNET_SG_MAP, role, req, subnet_name, ssh_security,
                   hiera_config, result, run_instances, calls>>

\* Line 143: the name check is made and the name is taken
NameTakenInverted(skip_name_check, hostname) ==
    ~skip_name_check /\ is_hostname_new(hostname)

NameTaken(skip_name_check, hostname) ==
    ~skip_name_check /\ ~is_hostname_new(hostname)

\* Lines 142-146
UniquenessCheck ==
    /\ pc = "UniquenessCheck"
    /\ IF NameTaken(req.skip_name_check, req.hostname)
       THEN Fail("UniquenessCheck", "ConflictError")
       ELSE Pass("UniquenessCheck")
    /\ UNCHANGED <<VPC_SUBNET_SG_MAP, role, req, config, subnet_name, ssh_security,
                   hiera_config, result, run_instances, calls>>

\* Line 148: what the dry run returns
DryRunValue(cfg) == PyNone

\* Lines 146-148
DryRunExit ==
    /\ pc = "DryRunExit"
    /\ result' = DryRunValue(config)
    /\ Pass("DryRunExit")
    /\ UNCHANGED <<VPC_SUBNET_SG_MAP, role, req, config, subnet_name, ssh_security,
                   hiera_config, run_instances, calls>>

\* Lines 149-153; the provider is taken to answer with an instance
Submit ==
    /\ pc = "Submit"
    /\ run_instances' = Append(run_instances, config)
    /\ result' = PyStr(NewInstanceId)
    /\ Pass("Submit")
    /\ UNCHANGED <<VPC_SUBNET_SG_MAP, role, req, config, subnet_name, ssh_security,
                   hiera_config, calls>>

Next ==
    \/ Launch
    \/ AuthCheck
    \/ ImageLookup
    \/ SubnetResolve
    \/ AccessReconciliation
    \/ RoleKeyValidation
    \/ Assemble
    \/ UniquenessCheck
    \/ DryRunExit
    \/ Submit

Spec == Init /\ [][Next]_vars

----------------------------------------------------------------------------
\* get_subnet_from_sg on its own: up to MaxCalls calls against one table

Resolve ==
    /\ Len(calls) < MaxCalls
    /\ \E sg \in SecurityGroups, az \in SUPPORTED_AZ :
        calls' = Append(calls, [sg |-> sg, az |-> az,
                                out |-> get_subnet_from_sg(VPC_SUBNET_SG_MAP, sg, az)])
    /\ UNCHANGED <<VPC_SUBNET_SG_MAP, role, req, pc, config, subnet_name, ssh_security,
                   hiera_config, error, result, run_instances, trace>>

NextResolve == Resolve

SpecResolve == Init /\ [][NextResolve]_vars

----------------------------------------------------------------------------
\* What the properties are stated with

\* The gates that lie after the access reconciliation.
AfterReconciliation ==
    {"RoleKeyValidation", "Assemble", "UniquenessCheck", "DryRunExit", "Submit", "Returned"}

Ran(gate) == \E i \in 1..Len(trace) : trace[i] = gate

\* The keys of a fully populated config.
DescriptorKeys ==
    {"key_name", "placement", "instance_profile_name", "image_id", "instance_type",
     "subnet_id", "security_group_ids", "user_data"}

Assembled == "user_data" \in DOMAIN config

\* The access levels, lowest first, stated as a table.
Level(g) ==
    CASE g = adm -> 1
      [] g = dev -> 2
      [] g = prod -> 3
      [] g = sec -> 4
      [] g = zz -> 5

Recognized == {dev, prod, sec}

Resolved == subnet_name # None

DefaultLevel == SSH_SECURITY_MAP[subnet_name].ssh
DefaultProfile == SSH_SECURITY_MAP[subnet_name].iam

ProfileOf(g) ==
    CASE g = dev -> "iam-dev"
      [] g = prod -> "iam-prod"
      [] g = sec -> "iam-sec"

\* The major versions with their dots removed, stated as a table.
Undotted(v) == IF v = v56 THEN <<"5", "6">> ELSE <<"5", "7">>

NoDescriptorOut ==
    /\ ~Assembled
    /\ run_instances = << >>
    /\ pc \notin AfterReconciliation

\* The entries of the table that hold sg, by position.
Holding(sg) == {i \in 1..Len(VPC_SUBNET_SG_MAP) : sg \in VPC_SUBNET_SG_MAP[i].sgs}
FirstHolding(sg) == CHOOSE i \in Holding(sg) : \A j \in Holding(sg) : i <= j
LastHolding(sg) == CHOOSE i \in Holding(sg) : \A j \in Holding(sg) : i >= j

\* What resolving to the network at position i must give in zone az.
ResolvesTo(out, i, az) ==
    LET n == VPC_SUBNET_SG_MAP[i].name
    IN  IF az \in DOMAIN VPC_AZ_SUBNET_MAP[n]
        THEN /\ out.ok
             /\ out.vpc_subnet = n
             /\ out.vpc_az_subnet = VPC_AZ_SUBNET_MAP[n][az]
        ELSE ~out.ok /\ out.err = "KeyError:VPC_AZ_SUBNET_MAP"

----------------------------------------------------------------------------
\* C1: a request whose access-group override ranks strictly below the
\* resolved network's default never gets past the access reconciliation: the
\* invocation ends in the policy raise of line 112, no descriptor is
\* assembled or submitted, and neither the level nor the profile of the
\* weaker override is ever taken.
C1_WeakerOverrideFails ==
    ( /\ Resolved
      /\ req.ssh_group # NoGroup
      /\ Level(req.ssh_group) < Level(DefaultLevel) )
    => /\ NoDescriptorOut
       /\ pc \in {"AccessReconciliation", "Failed"}
       /\ pc = "Failed" => error = "PolicyError:access"
       /\ ssh_security # req.ssh_group
       /\ req.ssh_group \in Recognized =>
              config.instance_profile_name # ProfileOf(req.ssh_group)

C1_Witness ==
    /\ pc = "Failed"
    /\ error = "PolicyError:access"
    /\ subnet_name = "vpc-a"
    /\ req.ssh_group = dev

\* C2: an override that is an access group and ranks at or above the default
\* replaces the default: once the reconciliation has run, the level is the
\* override, the profile is the one mapped to the override, and the role
\* key and the assembled descriptor are built from the override's level.
C2_AllowedOverrideAdopted ==
    ( /\ Resolved
      /\ req.ssh_group \in Recognized
      /\ Level(req.ssh_group) >= Level(DefaultLevel)
      /\ Ran("AccessReconciliation") )
    => /\ error # "PolicyError:access"
       /\ ssh_security = req.ssh_group
       /\ config.instance_profile_name = ProfileOf(req.ssh_group)
       /\ config.instance_profile_name # DefaultProfile
       /\ Ran("RoleKeyValidation") =>
              hiera_config = HIERA_FORMAT(req.ssh_group,
                                          Undotted(req.mysql_major_version),
                                          req.mysql_minor_version)
       /\ Assembled => config.user_data.pinfo_role = hiera_config
       /\ \A i \in 1..Len(run_instances) :
              run_instances[i].instance_profile_name = ProfileOf(req.ssh_group)

C2_Witness ==
    /\ pc = "Returned"
    /\ subnet_name = "vpc-a"
    /\ req.ssh_group = sec
    /\ Len(run_instances) = 1

\* C3: an override that is no access group is rejected whatever its rank:
\* the invocation never gets past the reconciliation, ends in the raise of
\* line 112 once it reaches it, and the default is never used in its place
\* to build a descriptor.
C3_UnrecognizedOverrideRejected ==
    ( /\ req.ssh_group # NoGroup
      /\ req.ssh_group \notin Recognized )
    => /\ NoDescriptorOut
       /\ hiera_config = << >>
       /\ Ran("AccessReconciliation") =>
              pc = "Failed" /\ error = "PolicyError:access"

C3_Witness ==
    /\ pc = "Failed"
    /\ error = "PolicyError:access"
    /\ req.ssh_group = zz
    /\ Level(zz) >= Level(DefaultLevel)

\* C4: a security group held by exactly one network whose zone has a subnet
\* resolves to that network and that subnet, and calls with the same
\* arguments return the same pair.
C4_UniqueNetworkResolved ==
    /\ \A k \in 1..Len(calls) :
          Cardinality(Holding(calls[k].sg)) = 1 =>
              LET n == VPC_SUBNET_SG_MAP[FirstHolding(calls[k].sg)].name
              IN  calls[k].az \in DOMAIN VPC_AZ_SUBNET_MAP[n] =>
                      /\ calls[k].out.ok
                      /\ calls[k].out.vpc_subnet = n
                      /\ calls[k].out.vpc_az_subnet = VPC_AZ_SUBNET_MAP[n][calls[k].az]
    /\ \A k, l \in 1..Len(calls) :
          (calls[k].sg = calls[l].sg /\ calls[k].az = calls[l].az) =>
              calls[k].out = calls[l].out

C4_Witness ==
    /\ Len(calls) >= 2
    /\ calls[1].sg = "sg-web"
    /\ calls[2].sg = "sg-web"
    /\ calls[1].az = calls[2].az
    /\ Cardinality(Holding("sg-web")) = 1
    /\ calls[2].out.ok
    /\ VPC_SUBNET_SG_MAP[Len(VPC_SUBNET_SG_MAP)].name = "vpc-b"

\* C5: a security group that no network holds, None included, resolves in
\* no zone: the call raises and gives no default, and the invocation ends
\* there without a subnet, a descriptor or a submission.
C5_NoNetworkFails ==
    (pc # "Start" /\ Holding(req.vpc_security_group) = {})
    => /\ \A z \in SUPPORTED_AZ :
             LET out == get_subnet_from_sg(VPC_SUBNET_SG_MAP, req.vpc_security_group, z)
             IN  ~out.ok /\ out.err = "ResolutionError" /\ out.vpc_subnet = None
       /\ subnet_name = None
       /\ "subnet_id" \notin DOMAIN config
       /\ NoDescriptorOut
       /\ pc \notin {"AccessReconciliation"}
       /\ Ran("SubnetResolve") => pc = "Failed" /\ error = "ResolutionError"

C5_Witness ==
    /\ pc = "Failed"
    /\ error = "ResolutionError"
    /\ req.vpc_security_group = None

C7_ConflictBeforeImageLookup ==
    (~req.skip_name_check /\ req.hostname \in UsedHostnames /\ pc \in Terminal)
    => /\ pc = "Failed"
       /\ run_instances = << >>
       /\ error = "ConflictError" => ~Ran("ImageLookup")

\* C7 amended: with the hostname taken and the check not skipped the
\* invocation fails and submits nothing; the conflict is raised by the last
\* gate, after the image lookup and the assembly of the descriptor.
C7_ConflictAfterAssembly ==
    (~req.skip_name_check /\ req.hostname \in UsedHostnames /\ pc # "Start")
    => /\ run_instances = << >>
       /\ pc \notin {"DryRunExit", "Submit", "Returned"}
       /\ pc \in Terminal => pc = "Failed"
       /\ Ran("UniquenessCheck") => pc = "Failed" /\ error = "ConflictError"
       /\ error = "ConflictError" =>
              /\ trace = <<"AuthCheck", "ImageLookup", "SubnetResolve",
                           "AccessReconciliation", "RoleKeyValidation",
                           "Assemble", "UniquenessCheck">>
              /\ "image_id" \in DOMAIN config
              /\ Assembled

C7_Witness ==
    /\ pc = "Failed"
    /\ error = "ConflictError"
    /\ req.hostname = "db-used"
    /\ ~req.skip_name_check

\* C8: the role key is the final access level, the major version without
\* its dots and the minor channel; a key outside the whitelist fails the
\* invocation, so every descriptor assembled or submitted carries a
\* whitelisted key.
C8_RoleKeyWhitelisted ==
    /\ Ran("RoleKeyValidation") =>
          /\ hiera_config =
                HIERA_FORMAT(IF req.ssh_group # NoGroup THEN req.ssh_group ELSE DefaultLevel,
                             Undotted(req.mysql_major_version),
                             req.mysql_minor_version)
          /\ \A i \in 1..Len(hiera_config) : hiera_config[i] # "."
          /\ hiera_config \notin SUPPORTED_HIERA_CONFIGS =>
                pc = "Failed" /\ error = "PolicyError:role"
    /\ Assembled =>
          /\ config.user_data.pinfo_role = hiera_config
          /\ config.user_data.pinfo_role \in SUPPORTED_HIERA_CONFIGS
    /\ \A i \in 1..Len(run_instances) :
          run_instances[i].user_data.pinfo_role \in SUPPORTED_HIERA_CONFIGS

C8_Witness ==
    /\ Len(run_instances) = 1
    /\ req.mysql_major_version = v57
    /\ run_instances[1].user_data.pinfo_role = HIERA_FORMAT(prod, <<"5", "7">>, stable)

\* C9: the gates run in the order AuthCheck, ImageLookup,
\* AccessReconciliation, RoleKeyValidation, Assemble, UniquenessCheck, then
\* DryRunExit or Submit; a gate that fails ends the invocation at once and
\* nothing runs after it; run_instances is called at most once, and only
\* after every gate has passed with dry_run unset.
GateOrder ==
    <<"AuthCheck", "ImageLookup", "AccessReconciliation", "RoleKeyValidation",
      "Assemble", "UniquenessCheck">>

\* The trace without the subnet resolution, which the order does not name.
NamedGates == SelectSeq(trace, LAMBDA g : g # "SubnetResolve")

IsPrefix(a, b) == Len(a) <= Len(b) /\ \A i \in 1..Len(a) : a[i] = b[i]

C9_GateOrder ==
    /\ \/ IsPrefix(NamedGates, GateOrder \o <<"DryRunExit">>)
       \/ IsPrefix(NamedGates, GateOrder \o <<"Submit">>)
    /\ error # "" <=> pc = "Failed"
    /\ pc = "Failed" => ~ENABLED Next
    /\ pc \notin {"Start", "Failed", "Returned"} => ~Ran(pc)
    /\ Len(run_instances) <= 1
    /\ run_instances # << >> =>
          /\ ~req.dry_run
          /\ NamedGates = GateOrder \o <<"Submit">>
          /\ error = ""
          /\ pc = "Returned"

C9_Witness ==
    /\ pc = "Failed"
    /\ error = "PolicyError:role"
    /\ NamedGates = SubSeq(GateOrder, 1, 4)

====
